---- MODULE Spec2Model ----
(***************************************************************************)
(* spotify-serialize: the restore side (commands/deserialize.py).          *)
(*                                                                         *)
(* The live library is the remote service's state (liked songs and the     *)
(* playlists in the user's listing).  A run is either the restore command  *)
(* (deserialize_command) or a direct use of the Deserializer class         *)
(* (Deserializer(spotify, library_json, hard).deserialize_library()).      *)
(*                                                                         *)
(* IDs are opaque strings in the program; they are naturals here.  None is *)
(* NoId for an ID and the string "None" for a text field.                  *)
(***************************************************************************)
EXTENDS Integers, Sequences, FiniteSets, TLC

\* ------------------------------------------------------------- bounds

\* Track IDs are 1..NumTracks.
NumTracks == 3

\* Longest track list given to the diff, and longest liked-songs list.
MaxLen == 2

\* Total number of track entries in a library that holds playlists.
MaxPlaylistTracks == 1

\* Number of reconciliations run in a row with the same snapshot and policy.
MaxRuns == 2

\* ---------------------------------------------------------- data model

\* PlaylistState.id defaults to None (utils.py:105).
NoId == 0

\* The ID of the current user, spotify.current_user().id.
user_id == 1

\* The owner of a playlist the user only follows.
other_user == user_id + 2

\* The playlists of the model: one whose ID is the same string as the user's
\* ID (the one case where the test of deserialize.py:288 is true) and one
\* whose ID is not.
PlaylistIds == {user_id, user_id + 1}

\* Playlist IDs the remote service assigns after these start here.
FirstNewId == user_id + 3

None == "None"

Tracks == 1..NumTracks

Range(s) == {s[i] : i \in DOMAIN s}

SeqsUpTo(S, n) == UNION {[1..k -> S] : k \in 0..n}

\* The sequences that list every element of S once: the orders in which
\* iterating a Python set can yield its elements.
Orders(S) == {s \in [1..Cardinality(S) -> S] : Range(s) = S}

NoDuplicates(s) == Cardinality(Range(s)) = Len(s)

IsSubSeq(s, t) ==
    \E f \in [1..Len(s) -> 1..Len(t)] :
        /\ \A i \in 1..Len(s) : s[i] = t[f[i]]
        /\ \A i, j \in 1..Len(s) : i < j => f[i] < f[j]

\* utils.py PlaylistState: a dataclass, so == compares all five fields.
PlaylistState(id, name, description, photo, tracks) ==
    [id |-> id, name |-> name, description |-> description,
     photo |-> photo, tracks |-> tracks]

\* PlaylistState() with every default.
DummyState == PlaylistState(NoId, None, None, None, <<>>)

\* PlaylistState(id=playlist_id), the followed playlists' placeholder.
IdOnlyState(id) == PlaylistState(id, None, None, None, <<>>)

\* ------------------------------------------------------------ the diff

\* Mutation: the two operands of the set difference exchanged.
get_list_diff_swapped(list1, list2) == Orders(Range(list1) \ Range(list2))

\* get_list_diff: [item for item in (set(list2) - set(list1))].  The result
\* lists the set difference in the set's iteration order, which the
\* language leaves open: every order is a possible result.
get_list_diff(list1, list2) == Orders(Range(list2) \ Range(list1))

\* Delta.__post_init__: the possible Delta objects for (original, changed).
Delta(original, changed) ==
    {[original |-> original, changed |-> changed,
      additions |-> a, deletions |-> d] :
        a \in get_list_diff(original.tracks, changed.tracks),
        d \in get_list_diff(changed.tracks, original.tracks)}

\* PlaylistDelta(original, changed, mode).
PlaylistDelta(original, changed, mode) ==
    {[original |-> d.original, changed |-> d.changed,
      additions |-> d.additions, deletions |-> d.deletions,
      mode |-> mode] : d \in Delta(original, changed)}

VARIABLES
    hard,                   \* the --hard option / Deserializer.hard
    entry,                  \* "command" or "class": how the run was started
    input_file,             \* the file given with -i
    answers,                \* the answers given at the prompts of this run
    library_json,           \* the snapshot given as input
    liked,                  \* live: the liked songs, in listing order
    playlists,              \* live: the playlists of the user's listing
    nextId,                 \* remote: the next playlist ID to assign
    pc,                     \* position of the run
    run,                    \* number of the current run
    saved_delta,            \* <<>> or <<the SavedSongsDelta>>
    deltas,                 \* _deserialize_playlists' deltas list
    removed_playlist_ids,   \* still to restore
    new_playlist_ids,       \* still to remove
    preserved_playlist_ids, \* still to diff
    calls,                  \* mutating calls issued in this run
    backup_written,         \* BACKUP_PATH was written in this run
    backup_file,            \* BACKUP_PATH: "absent", "existing" or "written"
    liked0,                 \* the liked songs when the run started
    playlists0,             \* the playlists when the run started
    list_a,                 \* diff check: original.tracks
    list_b,                 \* diff check: changed.tracks
    diff_out,               \* diff check: <<>> or <<the Delta>>
    library_items,          \* diff check: a live listing, items with types
    backup_items,           \* diff check: the snapshot's items, with types
    s_entry,                \* backup: "library", "playlist" or "methods"
    output,                 \* backup: the -o option, "given" or "default"
    with_images,            \* backup: not --no-images
    fs,                     \* backup: the paths that exist
    s_pc,                   \* backup: position of the run
    saved_listing,          \* backup: spotify.saved_tracks(), all items
    playlist_listing,       \* backup: spotify.playlists(user_id), all items
    saved_songs,            \* backup: _serialize_saved_songs' result
    owned_playlists,        \* backup: _serialize_playlists' first result
    followed_playlists,     \* backup: _serialize_playlists' second result
    warnings,               \* backup: the counts warned about, in order
    json_data,              \* backup: <<>> or <<the document built>>
    compress,               \* backup: the -c option, "none", "zip" or "tar"
    archive,                \* backup: the archive's path: "absent",
                            \* "existing" or "written"
    c_files,                \* compression.py: the content of each path
    c_before,               \* compression.py: c_files before the last run
    c_last,                 \* compression.py: <<>> or <<the last run's args>>
    c_exit,                 \* compression.py: <<>> or <<the last exit code>>
    c_stderr,               \* compression.py: the last run's stderr
    c_runs                  \* compression.py: number of runs so far

vars ==
    <<hard, entry, input_file, answers, library_json, liked, playlists,
      nextId, pc, run, saved_delta, deltas, removed_playlist_ids,
      new_playlist_ids,
      preserved_playlist_ids, calls, backup_written, backup_file, liked0,
      playlists0, list_a, list_b, diff_out, library_items, backup_items,
      s_entry, output, with_images, fs, s_pc, saved_listing,
      playlist_listing, saved_songs, owned_playlists, followed_playlists,
      warnings, json_data, compress, archive,
      c_files, c_before, c_last, c_exit, c_stderr, c_runs>>

runVars ==
    <<hard, entry, input_file, answers, library_json, liked, playlists,
      nextId, pc, run, saved_delta, deltas, removed_playlist_ids,
      new_playlist_ids,
      preserved_playlist_ids, calls, backup_written, backup_file, liked0,
      playlists0>>

diffVars == <<list_a, list_b, diff_out, library_items, backup_items>>

serVars ==
    <<s_entry, output, with_images, fs, s_pc, saved_listing,
      playlist_listing, saved_songs, owned_playlists, followed_playlists,
      warnings, json_data, compress, archive>>

compVars == <<c_files, c_before, c_last, c_exit, c_stderr, c_runs>>

\* The script's variables while the script is not run.
CompIdle ==
    /\ c_files = <<>>
    /\ c_before = <<>>
    /\ c_last = <<>>
    /\ c_exit = <<>>
    /\ c_stderr = <<>>
    /\ c_runs = 0

\* The diff's variables while the diff is not exercised.
DiffIdle ==
    /\ list_a = <<>>
    /\ list_b = <<>>
    /\ diff_out = <<>>
    /\ library_items = <<>>
    /\ backup_items = <<>>

\* The backup's variables while no backup is run.
SerIdle ==
    /\ s_entry = "methods"
    /\ output = "default"
    /\ with_images = FALSE
    /\ fs = {}
    /\ s_pc = "done"
    /\ saved_listing = <<>>
    /\ playlist_listing = <<>>
    /\ saved_songs = <<>>
    /\ owned_playlists = <<>>
    /\ followed_playlists = <<>>
    /\ warnings = <<>>
    /\ json_data = <<>>
    /\ compress = "none"
    /\ archive = "absent"

\* The top-level keys of the document Serializer.serialize writes to
\* data.json (schema.py SnapshotJSON).
SnapshotJSON_keys ==
    {"user", "likedSongs", "ownedPlaylists", "followedPlaylists"}

\* The top-level keys the Deserializer looks up in library_json.
Deserializer_keys == {"saved", "playlists"}

\* The input files of a restore: data.json as the backup command writes it
\* (json.dump as text), the same file compressed with scripts/compression.py
\* (zlib over the JSON text), and a zlib-compressed document with the keys
\* the Deserializer reads.
SerializerDataJson == [compression |-> "none", keys |-> SnapshotJSON_keys]

CompressedDataJson == [compression |-> "zlib", keys |-> SnapshotJSON_keys]

DeserializerDocument == [compression |-> "zlib", keys |-> Deserializer_keys]

InputFiles == {SerializerDataJson, CompressedDataJson, DeserializerDocument}

EmptyLibraryJson == [saved |-> <<>>, owned |-> {}, followed |-> {}]

NoPlaylists == [id \in {} |-> 0]

\* The run's variables while only the diff is exercised.
RunIdle ==
    /\ hard = FALSE
    /\ entry = "class"
    /\ input_file = DeserializerDocument
    /\ answers = <<>>
    /\ library_json = EmptyLibraryJson
    /\ liked = <<>>
    /\ playlists = NoPlaylists
    /\ nextId = FirstNewId
    /\ pc = "done"
    /\ run = MaxRuns
    /\ saved_delta = <<>>
    /\ deltas = <<>>
    /\ removed_playlist_ids = {}
    /\ new_playlist_ids = {}
    /\ preserved_playlist_ids = {}
    /\ calls = <<>>
    /\ backup_written = FALSE
    /\ backup_file = "absent"
    /\ liked0 = <<>>
    /\ playlists0 = NoPlaylists

\* ---------------------------------------------------- the remote service
\* The calls of the tekore client that change the live library, as the
\* Deserializer issues them.

\* spotify.saved_tracks_add(ids): saves the tracks not saved yet.
saved_tracks_add(lib, ids) ==
    lib \o SelectSeq(ids, LAMBDA t : t \notin Range(lib))

\* spotify.saved_tracks_delete(ids).
saved_tracks_delete(lib, ids) ==
    SelectSeq(lib, LAMBDA t : t \notin Range(ids))

\* spotify.playlist_create(user_id, name, description, public=True): a new,
\* empty playlist of the user under the ID the service assigns.
playlist_create(pls, id, owner, name, description) ==
    (id :> [owner |-> owner, name |-> name, description |-> description,
            images |-> <<>>, tracks |-> <<>>]) @@ pls

\* spotify.playlist_unfollow(playlist_id).
playlist_unfollow(pls, id) ==
    [p \in (DOMAIN pls) \ {id} |-> pls[p]]

\* The records of the mutating calls, kept in calls: the call, the playlist
\* it is about (for playlist_create the ID assigned), the snapshot playlist
\* a created playlist is made for, and the track IDs passed.
AddCall(ids) ==
    [op |-> "saved_tracks_add", id |-> NoId, for |-> NoId, tracks |-> ids]

DeleteCall(ids) ==
    [op |-> "saved_tracks_delete", id |-> NoId, for |-> NoId, tracks |-> ids]

CreateCall(id, snapshot_id) ==
    [op |-> "playlist_create", id |-> id, for |-> snapshot_id,
     tracks |-> <<>>]

UnfollowCall(id) ==
    [op |-> "playlist_unfollow", id |-> id, for |-> NoId, tracks |-> <<>>]

\* ------------------------------------------------------------ the inputs

Owners == {user_id, other_user}

\* What a live playlist of the inputs looks like: the user's own playlists
\* are named "A" and have neither description nor image, the others are
\* named "B" and have both.
LiveMeta(owner) ==
    IF owner = user_id
    THEN [name |-> "A", description |-> None, images |-> <<>>]
    ELSE [name |-> "B", description |-> "about B", images |-> <<"img-B">>]

SnapshotMetas ==
    {[name |-> "A", description |-> None, photo |-> None],
     [name |-> "B", description |-> "about B", photo |-> "img-B"]}

\* The ways to give each slot a track list with at most b entries in all.
RECURSIVE Fill(_, _)
Fill(slots, b) ==
    IF slots = {} THEN {[s \in {} |-> <<>>]}
    ELSE LET s == CHOOSE x \in slots : TRUE
         IN  UNION {{(s :> l) @@ f : f \in Fill(slots \ {s}, b - Len(l))} :
                        l \in SeqsUpTo(Tracks, b)}

LikedSlot == <<"liked", NoId>>

StartPc(e) == IF e = "command" THEN "get_client" ELSE "get_saved_tracks_diff"

\* What every run starts from, whatever the library and the snapshot.  The
\* command is given any of the input files; the class is given the content
\* of a document with the keys it reads.
RunStart ==
    /\ hard \in BOOLEAN
    /\ entry \in {"command", "class"}
    /\ input_file \in IF entry = "command" THEN InputFiles
                      ELSE {DeserializerDocument}
    /\ answers = <<>>
    /\ nextId = FirstNewId
    /\ pc = StartPc(entry)
    /\ run = 1
    /\ saved_delta = <<>>
    /\ deltas = <<>>
    /\ removed_playlist_ids = {}
    /\ new_playlist_ids = {}
    /\ preserved_playlist_ids = {}
    /\ calls = <<>>
    /\ backup_written = FALSE
    /\ backup_file \in IF entry = "command" /\ hard
                       THEN {"absent", "existing"} ELSE {"absent"}
    /\ liked0 = liked
    /\ playlists0 = playlists
    /\ DiffIdle
    /\ SerIdle
    /\ CompIdle

\* A library and a snapshot without playlists: any liked songs.
InitSavedSongs ==
    /\ liked \in {l \in SeqsUpTo(Tracks, MaxLen) : NoDuplicates(l)}
    /\ playlists = NoPlaylists
    /\ \E saved \in SeqsUpTo(Tracks, MaxLen) :
           library_json = [saved |-> saved, owned |-> {}, followed |-> {}]
    /\ RunStart

\* A library and a snapshot with playlists, MaxPlaylistTracks track entries
\* in all (in the live liked songs and in the playlists of either side).
\* The snapshot has the layout the Deserializer reads: "saved" (track IDs),
\* "playlists"."owned" (id, name, description, photo, tracks) and
\* "playlists"."followed" (playlist IDs).
InitPlaylists ==
    /\ \E liveIds \in SUBSET PlaylistIds, ownedIds \in SUBSET PlaylistIds :
       \E followedIds \in SUBSET (PlaylistIds \ ownedIds) :
       \E owner \in [liveIds -> Owners],
          snap \in [ownedIds -> SnapshotMetas] :
       \E fill \in Fill({LikedSlot}
                          \cup {<<"live", id>> : id \in liveIds}
                          \cup {<<"snap", id>> : id \in ownedIds},
                        MaxPlaylistTracks) :
           /\ NoDuplicates(fill[LikedSlot])
           /\ liked = fill[LikedSlot]
           /\ playlists =
                  [id \in liveIds |->
                      [owner |-> owner[id],
                       name |-> LiveMeta(owner[id]).name,
                       description |-> LiveMeta(owner[id]).description,
                       images |-> LiveMeta(owner[id]).images,
                       tracks |-> fill[<<"live", id>>]]]
           /\ library_json =
                  [saved |-> <<>>,
                   owned |-> {[id |-> id, name |-> snap[id].name,
                               description |-> snap[id].description,
                               photo |-> snap[id].photo,
                               tracks |-> fill[<<"snap", id>>]] :
                                  id \in ownedIds},
                   followed |-> followedIds]
    /\ RunStart

Init == InitSavedSongs \/ InitPlaylists

\* ------------------------------------------------- deserialize_command

\* Serializer.__init__(self, spotify, with_images) takes two arguments.
Serializer_init_params == {"spotify", "with_images"}

\* The methods the Serializer class defines (SinglePlaylistSerializer adds
\* none).
Serializer_methods ==
    {"__init__", "serialize", "_serialize_profile", "_serialize_saved_songs",
     "_serialize_playlists"}

\* create_backup(Serializer(spotify)): the constructor is given spotify
\* alone and create_backup then calls serializer.get_library_json(); the
\* backup file is written only if both succeed.
create_backup_succeeds ==
    /\ {"spotify"} = Serializer_init_params
    /\ "get_library_json" \in Serializer_methods

\* Mutation: a failed backup does not stop the run.
after_create_backup_ignoring_failure(ok) == "load_input"

\* deserialize_command, the hard branch: an exception of create_backup
\* ends the run; otherwise the input is loaded next.
after_create_backup(ok) == IF ok THEN "load_input" ELSE "backup_failed"

\* Mutation: the run goes on whatever the answer.
after_confirmation_no_abort(answer, h) ==
    IF h THEN "prompt_hard_confirmation" ELSE "load_input"

\* deserialize_command after prompt_confirmation: click.confirm(abort=True)
\* raises Abort on "no"; with hard the second prompt and the backup follow.
after_confirmation(answer, h) ==
    IF ~answer THEN "aborted"
    ELSE IF h THEN "prompt_hard_confirmation" ELSE "load_input"

\* deserialize_command after prompt_hard_confirmation: Abort on "no", the
\* backup on "yes".
after_hard_confirmation(answer) ==
    IF answer THEN "create_backup" ELSE "aborted"

\* zlib.decompress(input.read()): raises zlib.error unless the file holds
\* zlib data.
zlib_decompress_succeeds(file) == file.compression = "zlib"

\* self.library_json["saved"], ["playlists"]["owned"] and
\* ["playlists"]["followed"]: KeyError unless the document has the keys.
has_deserializer_keys(file) == Deserializer_keys \subseteq file.keys

\* get_client(): reads the stored credentials and builds the client.
GetClient ==
    /\ pc = "get_client"
    /\ pc' = "prompt_confirmation"
    /\ UNCHANGED <<hard, entry, library_json, liked, playlists, nextId, run,
                   saved_delta, deltas, removed_playlist_ids,
                   new_playlist_ids, preserved_playlist_ids, calls,
                   backup_written, liked0, playlists0>>
    /\ UNCHANGED <<input_file, answers, backup_file>>
    /\ UNCHANGED <<diffVars, serVars, compVars>>

\* prompt_confirmation().
PromptConfirmation ==
    /\ pc = "prompt_confirmation"
    /\ \E answer \in BOOLEAN :
           /\ pc' = after_confirmation(answer, hard)
           /\ answers' = Append(answers, answer)
    /\ UNCHANGED <<hard, entry, library_json, liked, playlists, nextId, run,
                   saved_delta, deltas, removed_playlist_ids,
                   new_playlist_ids, preserved_playlist_ids, calls,
                   backup_written, liked0, playlists0>>
    /\ UNCHANGED <<input_file, backup_file>>
    /\ UNCHANGED <<diffVars, serVars, compVars>>

\* prompt_hard_confirmation().
PromptHardConfirmation ==
    /\ pc = "prompt_hard_confirmation"
    /\ \E answer \in BOOLEAN :
           /\ pc' = after_hard_confirmation(answer)
           /\ answers' = Append(answers, answer)
    /\ UNCHANGED <<hard, entry, library_json, liked, playlists, nextId, run,
                   saved_delta, deltas, removed_playlist_ids,
                   new_playlist_ids, preserved_playlist_ids, calls,
                   backup_written, liked0, playlists0>>
    /\ UNCHANGED <<input_file, backup_file>>
    /\ UNCHANGED <<diffVars, serVars, compVars>>

\* create_backup: BACKUP_PATH.open("wt") creates the file or truncates the
\* one that exists, and json.dump writes the new content; the file is not
\* touched when the step fails before.
backup_file_after(file, ok) == IF ok THEN "written" ELSE file

\* create_backup(Serializer(spotify)).
CreateBackup ==
    /\ pc = "create_backup"
    /\ backup_written' = create_backup_succeeds
    /\ backup_file' = backup_file_after(backup_file, create_backup_succeeds)
    /\ pc' = after_create_backup(create_backup_succeeds)
    /\ UNCHANGED <<hard, entry, library_json, liked, playlists, nextId, run,
                   saved_delta, deltas, removed_playlist_ids,
                   new_playlist_ids, preserved_playlist_ids, calls,
                   liked0, playlists0>>
    /\ UNCHANGED <<input_file, answers>>
    /\ UNCHANGED <<diffVars, serVars, compVars>>

\* deserialize_command: an exception of zlib.decompress ends the run;
\* otherwise the Deserializer is built and deserialize_library called.
after_load_input(file) ==
    IF zlib_decompress_succeeds(file) THEN "get_saved_tracks_diff"
    ELSE "load_failed"

\* zlib.decompress, decode, json.loads and Deserializer(spotify,
\* library_json, hard): the input file holds library_json.
LoadInput ==
    /\ pc = "load_input"
    /\ pc' = after_load_input(input_file)
    /\ UNCHANGED <<hard, entry, library_json, liked, playlists, nextId, run,
                   saved_delta, deltas, removed_playlist_ids,
                   new_playlist_ids, preserved_playlist_ids, calls,
                   backup_written, liked0, playlists0>>
    /\ UNCHANGED <<input_file, answers, backup_file>>
    /\ UNCHANGED <<diffVars, serVars, compVars>>

\* The report is printed and written to the log.
Report ==
    /\ pc = "report"
    /\ pc' = "done"
    /\ UNCHANGED <<hard, entry, library_json, liked, playlists, nextId, run,
                   saved_delta, deltas, removed_playlist_ids,
                   new_playlist_ids, preserved_playlist_ids, calls,
                   backup_written, liked0, playlists0>>
    /\ UNCHANGED <<input_file, answers, backup_file>>
    /\ UNCHANGED <<diffVars, serVars, compVars>>

\* ------------------------------------------ Deserializer: liked songs

\* Mutation: the snapshot taken as the original and the library as the
\* changed state.
get_saved_tracks_diff_reversed(library_tracks, backup_tracks) ==
    Delta(PlaylistState(NoId, None, None, None, backup_tracks),
          PlaylistState(NoId, None, None, None, library_tracks))

\* _get_saved_tracks_diff: SavedSongsDelta(current, before).
get_saved_tracks_diff(library_tracks, backup_tracks) ==
    Delta(PlaylistState(NoId, None, None, None, library_tracks),
          PlaylistState(NoId, None, None, None, backup_tracks))

\* Mutation: deletions are issued whatever the policy.
deletes_saved_tracks_always(h) == TRUE

\* _deserialize_saved_songs: saved_tracks_delete is called if self.hard.
deletes_saved_tracks(h) == h

\* _get_saved_tracks_diff: the lookup of "saved" comes first and raises
\* KeyError on a document without it; then the live listing is read and
\* the delta built.
GetSavedTracksDiff ==
    /\ pc = "get_saved_tracks_diff"
    /\ IF has_deserializer_keys(input_file)
       THEN /\ \E d \in get_saved_tracks_diff(liked, library_json.saved) :
                   saved_delta' = <<d>>
            /\ pc' = "saved_tracks_add"
       ELSE /\ saved_delta' = saved_delta
            /\ pc' = "key_error"
    /\ UNCHANGED <<hard, entry, library_json, liked, playlists, nextId, run,
                   deltas, removed_playlist_ids, new_playlist_ids,
                   preserved_playlist_ids, calls, backup_written, liked0,
                   playlists0>>
    /\ UNCHANGED <<input_file, answers, backup_file>>
    /\ UNCHANGED <<diffVars, serVars, compVars>>

\* self.spotify.saved_tracks_add(delta.additions).
SavedTracksAdd ==
    /\ pc = "saved_tracks_add"
    /\ liked' = saved_tracks_add(liked, saved_delta[1].additions)
    /\ calls' = Append(calls, AddCall(saved_delta[1].additions))
    /\ pc' = IF deletes_saved_tracks(hard) THEN "saved_tracks_delete"
             ELSE "get_library_playlists"
    /\ UNCHANGED <<hard, entry, library_json, playlists, nextId, run,
                   saved_delta, deltas, removed_playlist_ids,
                   new_playlist_ids, preserved_playlist_ids, backup_written,
                   liked0, playlists0>>
    /\ UNCHANGED <<input_file, answers, backup_file>>
    /\ UNCHANGED <<diffVars, serVars, compVars>>

\* self.spotify.saved_tracks_delete(delta.deletions).
SavedTracksDelete ==
    /\ pc = "saved_tracks_delete"
    /\ liked' = saved_tracks_delete(liked, saved_delta[1].deletions)
    /\ calls' = Append(calls, DeleteCall(saved_delta[1].deletions))
    /\ pc' = "get_library_playlists"
    /\ UNCHANGED <<hard, entry, library_json, playlists, nextId, run,
                   saved_delta, deltas, removed_playlist_ids,
                   new_playlist_ids, preserved_playlist_ids, backup_written,
                   liked0, playlists0>>
    /\ UNCHANGED <<input_file, answers, backup_file>>
    /\ UNCHANGED <<diffVars, serVars, compVars>>

\* -------------------------------------------- Deserializer: playlists

\* _get_library_playlists: a listed playlist goes to owned_playlists when
\* full_playlist.id == user_id, and to followed_playlists otherwise.
library_owned_ids(pls, uid) == {id \in DOMAIN pls : id = uid}

library_followed_ids(pls, uid) == (DOMAIN pls) \ library_owned_ids(pls, uid)

\* _get_followed_diff: (new_follows, removed_follows).
get_followed_diff(library_follows, backup_follows) ==
    <<library_follows \ backup_follows, backup_follows \ library_follows>>

\* backup_owned: the snapshot's owned playlists by ID.
backup_owned(json, id) == CHOOSE m \in json.owned : m.id = id

backup_owned_ids(json) == {m.id : m \in json.owned}

\* PlaylistDelta(dummy, dummy, mode) with dummy = PlaylistState(id=...).
follow_delta(id, mode) ==
    CHOOSE d \in PlaylistDelta(IdOnlyState(id), IdOnlyState(id), mode) : TRUE

\* The deltas appended for the followed playlists: one CREATED per removed
\* follow and, if hard, one DELETED per new follow, each loop in the
\* iteration order of its set.
followed_deltas(new_follows, removed_follows, h) ==
    {[i \in 1..Len(r) |-> follow_delta(r[i], "CREATED")]
        \o [i \in 1..Len(n) |-> follow_delta(n[i], "DELETED")] :
            r \in Orders(removed_follows),
            n \in Orders(IF h THEN new_follows ELSE {})}

\* Where _deserialize_playlists goes on: the restore loop, then (if hard)
\* the remove loop, then the diff loop, then the return.
playlists_pc(removed, new, preserved, h, e) ==
    IF removed # {} THEN "restore_playlist"
    ELSE IF h /\ new # {} THEN "remove_playlist"
    ELSE IF preserved # {} THEN "get_playlist_diff"
    ELSE IF e = "command" THEN "report" ELSE "done"

\* _deserialize_playlists up to the loops over the owned playlists.
GetLibraryPlaylists ==
    /\ pc = "get_library_playlists"
    /\ LET owned == library_owned_ids(playlists, user_id)
           followed == library_followed_ids(playlists, user_id)
           fd == get_followed_diff(followed, library_json.followed)
           backup == backup_owned_ids(library_json)
       IN  /\ \E ds \in followed_deltas(fd[1], fd[2], hard) : deltas' = ds
           /\ new_playlist_ids' = owned \ backup
           /\ removed_playlist_ids' = backup \ owned
           /\ preserved_playlist_ids' = owned \cap backup
           /\ pc' = playlists_pc(backup \ owned, owned \ backup,
                                 owned \cap backup, hard, entry)
    /\ UNCHANGED <<hard, entry, library_json, liked, playlists, nextId, run,
                   saved_delta, calls, backup_written, liked0, playlists0>>
    /\ UNCHANGED <<input_file, answers, backup_file>>
    /\ UNCHANGED <<diffVars, serVars, compVars>>

\* Mutation: the delta keeps the snapshot's playlist ID.
restore_delta_old_id(json_playlist, new_id) ==
    PlaylistDelta(DummyState,
                  PlaylistState(json_playlist.id, json_playlist.name,
                                json_playlist.description, None,
                                json_playlist.tracks),
                  "CREATED")

\* _restore_playlist: the delta returned for the playlist created as new_id.
restore_delta(json_playlist, new_id) ==
    PlaylistDelta(DummyState,
                  PlaylistState(new_id, json_playlist.name,
                                json_playlist.description, None,
                                json_playlist.tracks),
                  "CREATED")

\* _restore_playlist: the tracks the new playlist is given.  The method
\* issues playlist_create alone: no call adds tracks to the new playlist.
restored_tracks(json_playlist) == <<>>

\* One iteration of "for playlist_id in removed_playlist_ids".
RestorePlaylist ==
    /\ pc = "restore_playlist"
    /\ \E id \in removed_playlist_ids :
           LET json_playlist == backup_owned(library_json, id)
               created == playlist_create(playlists, nextId, user_id,
                                          json_playlist.name,
                                          json_playlist.description)
           IN  /\ playlists' =
                      [created EXCEPT
                          ![nextId].tracks = restored_tracks(json_playlist)]
               /\ \E d \in restore_delta(json_playlist, nextId) :
                      deltas' = Append(deltas, d)
               /\ calls' = Append(calls, CreateCall(nextId, id))
               /\ removed_playlist_ids' = removed_playlist_ids \ {id}
               /\ pc' = playlists_pc(removed_playlist_ids \ {id},
                                     new_playlist_ids,
                                     preserved_playlist_ids, hard, entry)
    /\ nextId' = nextId + 1
    /\ UNCHANGED <<hard, entry, library_json, liked, run, saved_delta,
                   new_playlist_ids, preserved_playlist_ids, backup_written,
                   liked0, playlists0>>
    /\ UNCHANGED <<input_file, answers, backup_file>>
    /\ UNCHANGED <<diffVars, serVars, compVars>>

\* images[0].url, or None without images.
photo_of(playlist) ==
    IF playlist.images # <<>> THEN playlist.images[1] ELSE None

\* _remove_playlist: the delta returned for the unfollowed playlist.
remove_delta(id, playlist) ==
    PlaylistDelta(PlaylistState(id, playlist.name, playlist.description,
                                photo_of(playlist), playlist.tracks),
                  DummyState, "DELETED")

\* One iteration of "for playlist_id in new_playlist_ids" (hard only).
RemovePlaylist ==
    /\ pc = "remove_playlist"
    /\ \E id \in new_playlist_ids :
           /\ playlists' = playlist_unfollow(playlists, id)
           /\ \E d \in remove_delta(id, playlists[id]) :
                  deltas' = Append(deltas, d)
           /\ calls' = Append(calls, UnfollowCall(id))
           /\ new_playlist_ids' = new_playlist_ids \ {id}
           /\ pc' = playlists_pc(removed_playlist_ids,
                                 new_playlist_ids \ {id},
                                 preserved_playlist_ids, hard, entry)
    /\ UNCHANGED <<hard, entry, library_json, liked, nextId, run,
                   saved_delta, removed_playlist_ids,
                   preserved_playlist_ids, backup_written, liked0,
                   playlists0>>
    /\ UNCHANGED <<input_file, answers, backup_file>>
    /\ UNCHANGED <<diffVars, serVars, compVars>>

\* _get_playlist_diff: the deltas list after the call: unchanged when
\* original == changed, and with a MODIFIED delta appended otherwise.
get_playlist_diff(backup_playlist, library_playlist) ==
    LET original == PlaylistState(backup_playlist.id, backup_playlist.name,
                                  backup_playlist.description,
                                  backup_playlist.photo,
                                  library_playlist.tracks)
        changed == PlaylistState(backup_playlist.id, library_playlist.name,
                                 library_playlist.description,
                                 photo_of(library_playlist),
                                 backup_playlist.tracks)
    IN  IF original = changed THEN {<<>>}
        ELSE {<<d>> : d \in PlaylistDelta(original, changed, "MODIFIED")}

\* One iteration of "for playlist_id in preserved_playlist_ids".
GetPlaylistDiff ==
    /\ pc = "get_playlist_diff"
    /\ \E id \in preserved_playlist_ids :
           /\ \E ds \in get_playlist_diff(backup_owned(library_json, id),
                                          playlists[id]) :
                  deltas' = deltas \o ds
           /\ preserved_playlist_ids' = preserved_playlist_ids \ {id}
           /\ pc' = playlists_pc(removed_playlist_ids, {},
                                 preserved_playlist_ids \ {id}, hard, entry)
    /\ UNCHANGED <<hard, entry, library_json, liked, playlists, nextId, run,
                   saved_delta, removed_playlist_ids, new_playlist_ids,
                   calls, backup_written, liked0, playlists0>>
    /\ UNCHANGED <<input_file, answers, backup_file>>
    /\ UNCHANGED <<diffVars, serVars, compVars>>

\* ------------------------------------------------- errors and repetition

\* The positions whose next step calls the remote service.
RemotePcs ==
    {"get_client", "get_saved_tracks_diff", "saved_tracks_add",
     "saved_tracks_delete", "get_library_playlists", "restore_playlist",
     "remove_playlist", "get_playlist_diff"}

\* The positions at which a run has ended: normally, by click.Abort at a
\* prompt, by the exception of the backup step, by zlib.error on the input,
\* by KeyError on the document, by a remote error.
Ended ==
    {"done", "aborted", "backup_failed", "load_failed", "key_error",
     "crashed"}

\* The positions of a run that has got past _deserialize_saved_songs.
PastSavedSongs ==
    {"get_library_playlists", "restore_playlist", "remove_playlist",
     "get_playlist_diff", "report", "done"}

\* A remote call raises: no handler catches it, the run ends.
RemoteError ==
    /\ pc \in RemotePcs
    /\ pc' = "crashed"
    /\ UNCHANGED <<hard, entry, library_json, liked, playlists, nextId, run,
                   saved_delta, deltas, removed_playlist_ids,
                   new_playlist_ids, preserved_playlist_ids, calls,
                   backup_written, liked0, playlists0>>
    /\ UNCHANGED <<input_file, answers, backup_file>>
    /\ UNCHANGED <<diffVars, serVars, compVars>>

\* The same reconciliation is started again: same snapshot, same policy,
\* the live library as the run before left it.
NextRun ==
    /\ pc = "done"
    /\ run < MaxRuns
    /\ run' = run + 1
    /\ pc' = StartPc(entry)
    /\ saved_delta' = <<>>
    /\ deltas' = <<>>
    /\ removed_playlist_ids' = {}
    /\ new_playlist_ids' = {}
    /\ preserved_playlist_ids' = {}
    /\ calls' = <<>>
    /\ backup_written' = FALSE
    /\ liked0' = liked
    /\ playlists0' = playlists
    /\ answers' = <<>>
    /\ UNCHANGED <<hard, entry, library_json, liked, playlists, nextId>>
    /\ UNCHANGED <<input_file, backup_file>>
    /\ UNCHANGED <<diffVars, serVars, compVars>>

Next ==
    \/ GetClient
    \/ PromptConfirmation
    \/ PromptHardConfirmation
    \/ CreateBackup
    \/ LoadInput
    \/ GetSavedTracksDiff
    \/ SavedTracksAdd
    \/ SavedTracksDelete
    \/ GetLibraryPlaylists
    \/ RestorePlaylist
    \/ RemovePlaylist
    \/ GetPlaylistDiff
    \/ Report
    \/ RemoteError
    \/ NextRun

Spec == Init /\ [][Next]_vars

\* ------------------------------------------------------------- claims

CallOps == {calls[i].op : i \in DOMAIN calls}

\* C1: in a hard-mode run of the restore command, no call that changes the
\* live library is issued unless the backup was written before in the same
\* run, and a run that ends without a written backup leaves the live
\* library as it found it.
C1_BackupBeforeMutation ==
    (entry = "command" /\ hard) =>
        /\ calls # <<>> => backup_written
        /\ (pc \in Ended /\ ~backup_written) =>
               (liked = liked0 /\ playlists = playlists0)

\* C1 witness: a hard run of the command ended at the failed backup step,
\* with no call issued and the live library (which is not empty) untouched.
C1_Witness ==
    /\ entry = "command"
    /\ hard
    /\ pc = "backup_failed"
    /\ ~backup_written
    /\ calls = <<>>
    /\ liked = liked0
    /\ liked # <<>>
    /\ Range(liked) # Range(library_json.saved)

\* C4: after a hard reconcile of the liked songs without a remote error, the
\* set of live liked songs is the set of the snapshot's liked songs: the
\* add call named the snapshot tracks that were missing live, the delete
\* call the live tracks that the snapshot does not hold.
C4_HardLikedSongsEqualSnapshot ==
    (hard /\ pc \in PastSavedSongs) =>
        /\ Range(liked) = Range(library_json.saved)
        /\ Range(calls[1].tracks) =
               Range(library_json.saved) \ Range(liked0)
        /\ Range(calls[2].tracks) =
               Range(liked0) \ Range(library_json.saved)

\* C4 witness: a hard run ended normally that had a track to add, a track
\* to remove and a track to keep.
C4_Witness ==
    /\ hard
    /\ pc = "done"
    /\ saved_delta[1].additions # <<>>
    /\ saved_delta[1].deletions # <<>>
    /\ Range(liked0) \cap Range(library_json.saved) # {}
    /\ Range(liked) = Range(library_json.saved)

\* C5: in a soft run, every liked track and every playlist (owned or
\* followed) that was live when the run started is still live, and no
\* saved_tracks_delete and no playlist_unfollow call is issued.
C5_SoftKeepsLiveItems ==
    ~hard =>
        /\ Range(liked0) \subseteq Range(liked)
        /\ \A id \in DOMAIN playlists0 :
               id \in DOMAIN playlists /\ playlists[id] = playlists0[id]
        /\ "saved_tracks_delete" \notin CallOps
        /\ "playlist_unfollow" \notin CallOps

\* C5 witness: a soft run ended normally on a library that held a liked
\* track, an owned playlist and a followed playlist that the snapshot does
\* not hold, and the run did change the library.
C5_Witness ==
    /\ ~hard
    /\ pc = "done"
    /\ Range(liked0) \ Range(library_json.saved) # {}
    /\ \E p, q \in DOMAIN playlists0 :
           /\ playlists0[p].owner = user_id
           /\ playlists0[q].owner # user_id
           /\ {p, q} \cap backup_owned_ids(library_json) = {}
           /\ {p, q} \cap library_json.followed = {}
    /\ "playlist_create" \in CallOps

\* The calls of this run that changed the live library.
ChangingCalls ==
    {i \in DOMAIN calls :
        calls[i].op \in {"playlist_create", "playlist_unfollow"}
            \/ calls[i].tracks # <<>>}

CreateCalls == {i \in DOMAIN calls : calls[i].op = "playlist_create"}

\* The playlist phase of the run has returned without an error.
PlaylistsDone == pc \in {"report", "done"}

\* C6: a second reconciliation in a row with the same snapshot and policy
\* is a no-op: its delta has no additions, no deletions (that the policy
\* applies) and no playlist entries, and it issues no call that changes the
\* live library.
C6_SecondRunIsNoOp ==
    run >= 2 =>
        /\ ChangingCalls = {}
        /\ PlaylistsDone =>
               /\ saved_delta[1].additions = <<>>
               /\ hard => saved_delta[1].deletions = <<>>
               /\ deltas = <<>>

\* C7: a soft run adds only snapshot items that were missing live: every
\* track it adds is in the snapshot and was not live, and every playlist it
\* creates is made for a snapshot playlist that the user did not own live.
C7_SoftAddsOnlyMissing ==
    ~hard =>
        \A i \in DOMAIN calls :
            /\ calls[i].op = "saved_tracks_add" =>
                   /\ Range(calls[i].tracks) \subseteq
                          Range(library_json.saved)
                   /\ Range(calls[i].tracks) \cap Range(liked0) = {}
            /\ calls[i].op = "playlist_create" =>
                   /\ calls[i].for \in backup_owned_ids(library_json)
                   /\ ~(/\ calls[i].for \in DOMAIN playlists0
                         /\ playlists0[calls[i].for].owner = user_id)

\* C8: once the playlists are reconciled (either policy), every owned
\* playlist P of the snapshot that was absent live has exactly one
\* playlist_create call; the playlist created has P's name and description
\* and an ID that the service assigned, which is not P's; and exactly one
\* delta has that ID, with mode CREATED.
C8_AbsentPlaylistCreated ==
    PlaylistsDone =>
        \A P \in library_json.owned :
            P.id \notin DOMAIN playlists0 =>
                /\ Cardinality({i \in CreateCalls : calls[i].for = P.id}) = 1
                /\ \A i \in CreateCalls :
                       calls[i].for = P.id =>
                           LET new == calls[i].id
                           IN  /\ new # P.id
                               /\ new \notin DOMAIN playlists0
                               /\ new \in DOMAIN playlists
                               /\ playlists[new].name = P.name
                               /\ playlists[new].description = P.description
                               /\ Cardinality(
                                      {k \in DOMAIN deltas :
                                          /\ deltas[k].changed.id = new
                                          /\ deltas[k].mode = "CREATED"}) = 1
                               /\ \A k \in DOMAIN deltas :
                                      deltas[k].mode = "CREATED" =>
                                          deltas[k].changed.id # P.id

\* C8 witness: a hard run and the playlists reconciled, with a snapshot
\* playlist that was absent live and is now created under a new ID.
C8_Witness ==
    /\ PlaylistsDone
    /\ hard
    /\ \E P \in library_json.owned :
           /\ P.id \notin DOMAIN playlists0
           /\ P.description # None
           /\ \E i \in CreateCalls :
                  /\ calls[i].for = P.id
                  /\ playlists[calls[i].id].name = P.name
                  /\ \E k \in DOMAIN deltas :
                         /\ deltas[k].mode = "CREATED"
                         /\ deltas[k].changed.id = calls[i].id

\* C9: once the run has ended, every playlist it recreated holds exactly
\* the tracks the snapshot lists for it.
C9_RecreatedPlaylistPopulated ==
    pc = "done" =>
        \A i \in CreateCalls :
            Range(playlists[calls[i].id].tracks) =
                Range(backup_owned(library_json, calls[i].for).tracks)

\* C10: for a playlist Q that the user owned live and that the snapshot
\* does not hold: a hard run unfollows Q and records a DELETED delta for
\* it, a soft run leaves Q as it was and records no delta for it.
C10_PlaylistNotInSnapshot ==
    PlaylistsDone =>
        \A Q \in DOMAIN playlists0 :
            (/\ playlists0[Q].owner = user_id
             /\ Q \notin backup_owned_ids(library_json)
             /\ Q \notin library_json.followed) =>
                IF hard
                THEN /\ \E i \in DOMAIN calls : calls[i] = UnfollowCall(Q)
                     /\ Q \notin DOMAIN playlists
                     /\ \E k \in DOMAIN deltas :
                            /\ deltas[k].mode = "DELETED"
                            /\ deltas[k].original.id = Q
                ELSE /\ Q \in DOMAIN playlists
                     /\ playlists[Q] = playlists0[Q]
                     /\ \A k \in DOMAIN deltas :
                            /\ deltas[k].original.id # Q
                            /\ deltas[k].changed.id # Q

\* The playlists that the user owned live when the run started and that the
\* snapshot holds as owned.
OwnedOnBothSides ==
    {id \in DOMAIN playlists0 :
        /\ playlists0[id].owner = user_id
        /\ id \in backup_owned_ids(library_json)}

\* C11: once the run has ended, every owned playlist that is present both
\* in the snapshot and live holds every track the snapshot lists for it,
\* and after a hard run it holds no track the snapshot does not list.
C11_TrackDeltaApplied ==
    pc = "done" =>
        \A id \in OwnedOnBothSides :
            /\ id \in DOMAIN playlists
            /\ Range(backup_owned(library_json, id).tracks)
                   \subseteq Range(playlists[id].tracks)
            /\ hard =>
                   Range(playlists[id].tracks) \subseteq
                       Range(backup_owned(library_json, id).tracks)

\* C12: every MODIFIED delta of the result has an addition or a deletion,
\* and an owned playlist present on both sides with the same track set on
\* both sides has no delta entry.
C12_ModifiedOnlyIfTracksDiffer ==
    PlaylistsDone =>
        /\ \A k \in DOMAIN deltas :
               deltas[k].mode = "MODIFIED" =>
                   (deltas[k].additions # <<>> \/ deltas[k].deletions # <<>>)
        /\ \A id \in OwnedOnBothSides :
               Range(playlists0[id].tracks) =
                   Range(backup_owned(library_json, id).tracks) =>
                       \A k \in DOMAIN deltas :
                           /\ deltas[k].original.id # id
                           /\ deltas[k].changed.id # id

\* C13: once the playlists are reconciled (either policy), every playlist
\* that the snapshot lists as followed and that was not in the user's
\* library when the run started is in the live library.
C13_MissingFollowsRestored ==
    PlaylistsDone =>
        \A id \in library_json.followed :
            id \notin DOMAIN playlists0 => id \in DOMAIN playlists

\* The positions whose next step is a call that changes one target.
MutationPcs ==
    {"saved_tracks_add", "saved_tracks_delete", "restore_playlist",
     "remove_playlist"}

\* C14: a remote failure of a mutating call does not end the run: the step
\* after the failed call goes on with the run, it never leaves the run at
\* the error with the remaining targets unprocessed.
C14_FailureIsolated ==
    [][(pc \in MutationPcs) => (pc' # "crashed")]_vars

\* The run has changed something: a mutating call was issued, the backup
\* file was written, or the live library differs from what the run found.
Changed ==
    \/ calls # <<>>
    \/ backup_written
    \/ liked # liked0
    \/ playlists # playlists0

\* The prompts the options call for have all been answered with yes.
Accepted ==
    /\ Len(answers) >= 1
    /\ answers[1]
    /\ hard => (Len(answers) >= 2 /\ answers[2])

\* C16: in a run of the restore command nothing is changed (no mutating
\* call, no write of the backup file) before the general prompt is accepted
\* and, with the hard option, the hard-option prompt too; and a run in which
\* a prompt was declined is aborted there with nothing changed.
C16_NothingBeforeConfirmation ==
    entry = "command" =>
        /\ Changed => Accepted
        /\ (\E i \in DOMAIN answers : ~answers[i]) =>
               (pc = "aborted" /\ ~Changed)

\* C16 witness: a hard run aborted at the hard-option prompt, after the
\* general prompt was accepted, on a library that differs from the snapshot.
C16_Witness ==
    /\ entry = "command"
    /\ hard
    /\ answers = <<TRUE, FALSE>>
    /\ pc = "aborted"
    /\ calls = <<>>
    /\ liked # <<>>
    /\ Range(liked) # Range(library_json.saved)

InitDiff ==
    /\ list_a \in SeqsUpTo(Tracks, MaxLen)
    /\ list_b \in SeqsUpTo(Tracks, MaxLen)
    /\ diff_out = <<>>
    /\ library_items = <<>>
    /\ backup_items = <<>>
    /\ RunIdle
    /\ SerIdle
    /\ CompIdle

\* Delta(original, changed) is constructed for the two track lists.
MakeDelta ==
    /\ diff_out = <<>>
    /\ \E d \in Delta(PlaylistState(NoId, None, None, None, list_a),
                      PlaylistState(NoId, None, None, None, list_b)) :
           diff_out' = <<d>>
    /\ UNCHANGED <<list_a, list_b, library_items, backup_items>>
    /\ UNCHANGED <<runVars, serVars, compVars>>

NextDiff == MakeDelta

SpecDiff == InitDiff /\ [][NextDiff]_vars

\* C2: Delta(original, changed) on track lists A and B gives additions and
\* deletions with set(B) = (set(A) - deletions) + additions, set(A) =
\* (set(B) - additions) + deletions and no common element; additions are
\* the items of B not in A, deletions the items of A not in B; equal lists
\* give two empty results and an empty A gives all of B and no deletion.
C2_DiffCorrect ==
    diff_out # <<>> =>
        LET A == Range(list_a)
            B == Range(list_b)
            add == Range(diff_out[1].additions)
            del == Range(diff_out[1].deletions)
        IN  /\ B = (A \ del) \cup add
            /\ A = (B \ add) \cup del
            /\ add \cap del = {}
            /\ add = B \ A
            /\ del = A \ B
            /\ list_a = list_b =>
                   (diff_out[1].additions = <<>>
                        /\ diff_out[1].deletions = <<>>)
            /\ list_a = <<>> => (add = B /\ diff_out[1].deletions = <<>>)

\* C2 witness: a diff of two lists that share an item, with an addition and
\* a deletion.
C2_Witness ==
    /\ diff_out # <<>>
    /\ diff_out[1].additions # <<>>
    /\ diff_out[1].deletions # <<>>
    /\ Range(list_a) \cap Range(list_b) # {}

\* C3: the additions are in the relative order they have in B and the
\* deletions in the relative order they have in A.
C3_DiffKeepsOrder ==
    diff_out # <<>> =>
        /\ IsSubSeq(diff_out[1].additions, list_b)
        /\ IsSubSeq(diff_out[1].deletions, list_a)

\* ------------------------------- specification of the diff of typed items

\* What a listing holds: tracks and episodes, each with an ID.
ItemTypes == {"track", "episode"}

Items == [type : ItemTypes, id : Tracks]

\* [t.track.id for t in ...] (saved_track.track.id for the liked songs):
\* the IDs of a live listing.
library_track_ids(listing) == [i \in DOMAIN listing |-> listing[i].id]

\* The track entries of the document the Deserializer reads are bare IDs
\* (List[SpotifyID]).
backup_track_ids(items) == [i \in DOMAIN items |-> items[i].id]

\* _get_playlist_diff on the tracks of one playlist: original holds the
\* library's track IDs, changed the snapshot's.
playlist_tracks_diff(listing, items) ==
    Delta(PlaylistState(NoId, None, None, None, library_track_ids(listing)),
          PlaylistState(NoId, None, None, None, backup_track_ids(items)))

InitItems ==
    /\ library_items \in SeqsUpTo(Items, MaxLen)
    /\ backup_items \in SeqsUpTo(Items, MaxLen)
    /\ list_a = <<>>
    /\ list_b = <<>>
    /\ diff_out = <<>>
    /\ RunIdle
    /\ SerIdle
    /\ CompIdle

\* The tracks of a playlist present on both sides are diffed.
MakeItemsDelta ==
    /\ diff_out = <<>>
    /\ \E d \in playlist_tracks_diff(library_items, backup_items) :
           diff_out' = <<d>>
    /\ UNCHANGED <<list_a, list_b, library_items, backup_items>>
    /\ UNCHANGED <<runVars, serVars, compVars>>

NextItems == MakeItemsDelta

SpecItems == InitItems /\ [][NextItems]_vars

\* C15: items are told apart by type and ID together: when the snapshot
\* holds an item x and the live listing an item y with x's ID and another
\* type, and the live listing does not hold x nor the snapshot y, then the
\* diff reports x as missing live (an addition) and y as not in the
\* snapshot (a deletion).
C15_TypeAndIdTogether ==
    diff_out # <<>> =>
        \A x \in Range(backup_items), y \in Range(library_items) :
            (/\ x.id = y.id
             /\ x.type # y.type
             /\ x \notin Range(library_items)
             /\ y \notin Range(backup_items)) =>
                /\ x.id \in Range(diff_out[1].additions)
                /\ y.id \in Range(diff_out[1].deletions)

\* ----------------------------------------------------------- the backup
\* commands/serialize.py: serialize_command, Serializer and
\* SinglePlaylistSerializer.  A run is the command for the whole library
\* ("library"), the command with -p ("playlist"), or the two collecting
\* methods of a Serializer called one after the other ("methods").  Runs
\* without -c; the image files are not modelled, the image directories are.

\* Total number of track entries in the playlists of a listing.
MaxListingTracks == 2

\* A listing item whose underlying track is None.
NullTrack == NoId

ListingItems == [track : Tracks \cup {NullTrack}]

\* The output directory, its parent, and what serialize puts in it.
ParentDir == "parent"

OutputDir == "out"

ImagesDir == "out/images"

OwnedImagesDir == "out/images/owned-playlists"

FollowedImagesDir == "out/images/followed-playlists"

TimestampPath == "out/TIMESTAMP"

DataJsonPath == "out/data.json"

Parent(path) ==
    CASE path = OutputDir -> ParentDir
      [] path = ImagesDir -> OutputDir
      [] path = OwnedImagesDir -> ImagesDir
      [] path = FollowedImagesDir -> ImagesDir
      [] path = TimestampPath -> OutputDir
      [] path = DataJsonPath -> OutputDir
      [] OTHER -> ParentDir

RECURSIVE Ancestors(_)
Ancestors(path) ==
    IF path = ParentDir THEN {ParentDir}
    ELSE {path} \cup Ancestors(Parent(path))

\* pathlib.Path.mkdir(parents, exist_ok) on a file system where every path
\* that exists is a directory: FileExistsError on an existing path unless
\* exist_ok, FileNotFoundError on a missing parent unless parents.
mkdir(files, path, parents, exist_ok) ==
    IF path \in files THEN [ok |-> exist_ok, fs |-> files]
    ELSE IF Parent(path) \in files
         THEN [ok |-> TRUE, fs |-> files \cup {path}]
         ELSE IF parents
              THEN [ok |-> TRUE, fs |-> files \cup Ancestors(path)]
              ELSE [ok |-> FALSE, fs |-> files]

\* Serializer.serialize, lines 143-148: output_dir.mkdir(exist_ok=True),
\* then output_dir.mkdir(parents=True), then images_dir.mkdir() if
\* with_images.  The steps after a failed one are not run.
serializer_mkdirs(files, images) ==
    LET r1 == mkdir(files, OutputDir, FALSE, TRUE)
        r2 == mkdir(r1.fs, OutputDir, TRUE, FALSE)
        r3 == mkdir(r2.fs, ImagesDir, FALSE, FALSE)
    IN  IF ~r1.ok THEN r1
        ELSE IF ~r2.ok THEN r2
        ELSE IF images THEN r3 ELSE r2

\* track_model_to_json: <<>> for None, <<the TrackJSON>> otherwise.
track_model_to_json(item) ==
    IF item.track = NullTrack THEN <<>> ELSE <<[id |-> item.track]>>

\* Mutation: an item without a track is converted like any other.
collected_tracks_with_null(listing) ==
    [i \in DOMAIN listing |-> [id |-> listing[i].track]]

\* The loop over a listing: the items that convert, converted, in order.
collected_tracks(listing) ==
    LET kept == SelectSeq(listing, LAMBDA it : track_model_to_json(it) # <<>>)
    IN  [i \in DOMAIN kept |-> track_model_to_json(kept[i])[1]]

\* The loop over a listing: the items appended to skipped.
skipped_tracks(listing) ==
    SelectSeq(listing, LAMBDA it : track_model_to_json(it) = <<>>)

\* "if skipped: warn_about_skipped_tracks(skipped)": the warnings after one
\* listing was collected.
warned(ws, listing) ==
    IF skipped_tracks(listing) # <<>>
    THEN Append(ws, Len(skipped_tracks(listing)))
    ELSE ws

\* playlist_model_to_json, without the name and the description.
playlist_model_to_json(playlist) ==
    [id |-> playlist.id, tracks |-> collected_tracks(playlist.tracks)]

\* user_model_to_json, the ID alone.
user_model_to_json(user) == [id |-> user]

\* Mutation: a playlist is the user's own when its ID is the user's ID.
is_owned_by_playlist_id(playlist, uid) == playlist.id = uid

\* _serialize_playlists: owner_id == user_id.
is_owned(playlist, uid) == playlist.owner = uid

\* _serialize_playlists: the list owned.
serialized_owned(listing, uid) ==
    LET sel == SelectSeq(listing, LAMBDA p : is_owned(p, uid))
    IN  [i \in DOMAIN sel |-> playlist_model_to_json(sel[i])]

\* _serialize_playlists: the list followed, each entry with its owner.
serialized_followed(listing, uid) ==
    LET sel == SelectSeq(listing, LAMBDA p : ~is_owned(p, uid))
    IN  [i \in DOMAIN sel |->
            [id |-> sel[i].id,
             tracks |-> collected_tracks(sel[i].tracks),
             owner |-> user_model_to_json(sel[i].owner)]]

\* The warnings of _serialize_playlists: one per playlist with skipped
\* items, in listing order.
RECURSIVE playlists_warned(_, _)
playlists_warned(ws, listing) ==
    IF listing = <<>> THEN ws
    ELSE playlists_warned(warned(ws, Head(listing).tracks), Tail(listing))

\* The ways to give each slot a listing with at most b items in all.
RECURSIVE FillListing(_, _)
FillListing(slots, b) ==
    IF slots = {} THEN {[x \in {} |-> <<>>]}
    ELSE LET x == CHOOSE y \in slots : TRUE
         IN  UNION {{(x :> l) @@ f :
                        f \in FillListing(slots \ {x}, b - Len(l))} :
                            l \in SeqsUpTo(ListingItems, b)}

\* The playlist listings of the inputs: playlists with different IDs, in
\* any order, each of the user or of somebody else.
PlaylistListings ==
    UNION {{[i \in DOMAIN ids |->
                [id |-> ids[i], owner |-> ow[ids[i]],
                 tracks |-> f[ids[i]]]] :
               ids \in Orders(S), ow \in [S -> Owners],
               f \in FillListing(S, MaxListingTracks)} :
           S \in SUBSET PlaylistIds}

\* The file system a run starts on.  With -o the path may exist, and its
\* parent may be missing; the default path is new and lies in the config
\* directory, which exists.  The methods are given an images directory.
StartFs(e, out) ==
    IF e = "methods" THEN {{ParentDir, OutputDir, ImagesDir}}
    ELSE IF out = "given" THEN {{}, {ParentDir}, {ParentDir, OutputDir}}
    ELSE {{ParentDir}}

InitSerialize ==
    /\ s_entry \in {"library", "playlist", "methods"}
    /\ output \in IF s_entry = "methods" THEN {"default"}
                  ELSE {"given", "default"}
    /\ with_images \in BOOLEAN
    /\ fs \in StartFs(s_entry, output)
    /\ s_pc = IF s_entry = "methods" THEN "serialize_saved_songs"
              ELSE "serialize_command"
    /\ \/ /\ s_entry # "playlist"
          /\ saved_listing \in SeqsUpTo(ListingItems, MaxLen)
          /\ playlist_listing = <<>>
       \/ /\ saved_listing = <<>>
          /\ playlist_listing \in PlaylistListings
          /\ s_entry = "playlist" => playlist_listing # <<>>
    /\ saved_songs = <<>>
    /\ owned_playlists = <<>>
    /\ followed_playlists = <<>>
    /\ warnings = <<>>
    /\ json_data = <<>>
    /\ compress \in IF s_entry = "methods" THEN {"none"}
                    ELSE {"none", "zip", "tar"}
    /\ archive \in IF compress = "none" THEN {"absent"}
                   ELSE {"absent", "existing"}
    /\ RunIdle
    /\ DiffIdle
    /\ CompIdle

\* serialize_command, lines 368-386: an output path that exists aborts the
\* run; otherwise the serializer for the request is built.
after_output_check(e, out, files) ==
    IF out = "given" /\ OutputDir \in files THEN "aborted"
    ELSE IF e = "playlist" THEN "playlist_mkdir" ELSE "serializer_mkdir"

\* serialize_command up to serializer.serialize(output, indent).
SerializeCommand ==
    /\ s_pc = "serialize_command"
    /\ s_pc' = after_output_check(s_entry, output, fs)
    /\ UNCHANGED <<s_entry, output, with_images, fs, saved_listing,
                   playlist_listing, saved_songs, owned_playlists,
                   followed_playlists, warnings, json_data>>
    /\ UNCHANGED <<compress, archive>>
    /\ UNCHANGED <<runVars, diffVars, compVars>>

\* Serializer.serialize: the directories; an exception of mkdir ends the
\* run.
SerializerMkdir ==
    /\ s_pc = "serializer_mkdir"
    /\ LET r == serializer_mkdirs(fs, with_images)
       IN  /\ fs' = r.fs
           /\ s_pc' = IF r.ok THEN "serialize_saved_songs"
                      ELSE "mkdir_failed"
    /\ UNCHANGED <<s_entry, output, with_images, saved_listing,
                   playlist_listing, saved_songs, owned_playlists,
                   followed_playlists, warnings, json_data>>
    /\ UNCHANGED <<compress, archive>>
    /\ UNCHANGED <<runVars, diffVars, compVars>>

\* SinglePlaylistSerializer.serialize: output_dir.mkdir(exist_ok=True).
PlaylistMkdir ==
    /\ s_pc = "playlist_mkdir"
    /\ LET r == mkdir(fs, OutputDir, FALSE, TRUE)
       IN  /\ fs' = r.fs
           /\ s_pc' = IF r.ok THEN "serialize_playlist" ELSE "mkdir_failed"
    /\ UNCHANGED <<s_entry, output, with_images, saved_listing,
                   playlist_listing, saved_songs, owned_playlists,
                   followed_playlists, warnings, json_data>>
    /\ UNCHANGED <<compress, archive>>
    /\ UNCHANGED <<runVars, diffVars, compVars>>

\* _serialize_saved_songs.
SerializeSavedSongs ==
    /\ s_pc = "serialize_saved_songs"
    /\ saved_songs' = collected_tracks(saved_listing)
    /\ warnings' = warned(warnings, saved_listing)
    /\ s_pc' = "serialize_playlists"
    /\ UNCHANGED <<s_entry, output, with_images, fs, saved_listing,
                   playlist_listing, owned_playlists, followed_playlists,
                   json_data>>
    /\ UNCHANGED <<compress, archive>>
    /\ UNCHANGED <<runVars, diffVars, compVars>>

\* _serialize_playlists: owned_images.mkdir() and followed_images.mkdir()
\* if with_images.
playlists_mkdirs(files, images) ==
    LET r1 == mkdir(files, OwnedImagesDir, FALSE, FALSE)
        r2 == mkdir(r1.fs, FollowedImagesDir, FALSE, FALSE)
    IN  IF ~images THEN [ok |-> TRUE, fs |-> files]
        ELSE IF ~r1.ok THEN r1 ELSE r2

\* _serialize_playlists.
SerializePlaylists ==
    /\ s_pc = "serialize_playlists"
    /\ LET r == playlists_mkdirs(fs, with_images)
       IN  /\ fs' = r.fs
           /\ IF r.ok
              THEN /\ owned_playlists' =
                          serialized_owned(playlist_listing, user_id)
                   /\ followed_playlists' =
                          serialized_followed(playlist_listing, user_id)
                   /\ warnings' = playlists_warned(warnings, playlist_listing)
                   /\ s_pc' = IF s_entry = "library" THEN "write_data"
                              ELSE "done"
              ELSE /\ UNCHANGED <<owned_playlists, followed_playlists,
                                  warnings>>
                   /\ s_pc' = "mkdir_failed"
    /\ UNCHANGED <<s_entry, output, with_images, saved_listing,
                   playlist_listing, saved_songs, json_data>>
    /\ UNCHANGED <<compress, archive>>
    /\ UNCHANGED <<runVars, diffVars, compVars>>

\* SinglePlaylistSerializer.serialize: spotify.playlist(self.playlist_id)
\* and playlist_model_to_json; the playlist asked for is the first of the
\* listing.
SerializePlaylist ==
    /\ s_pc = "serialize_playlist"
    /\ json_data' = <<playlist_model_to_json(playlist_listing[1])>>
    /\ warnings' = warned(warnings, playlist_listing[1].tracks)
    /\ s_pc' = "write_data"
    /\ UNCHANGED <<s_entry, output, with_images, fs, saved_listing,
                   playlist_listing, saved_songs, owned_playlists,
                   followed_playlists>>
    /\ UNCHANGED <<compress, archive>>
    /\ UNCHANGED <<runVars, diffVars, compVars>>

\* Serializer.serialize, lines 158-163: the document of a library.
SnapshotJSON(saved, own, fol) ==
    [user |-> user_model_to_json(user_id), likedSongs |-> saved,
     ownedPlaylists |-> own, followedPlaylists |-> fol]

\* serialize_command, lines 388-393: "if compress:" after serialize.
after_serialize(c) == IF c = "none" THEN "done" ELSE "compress"

\* The files are written: TIMESTAMP and data.json for a library, data.json
\* for a single playlist.
WriteData ==
    /\ s_pc = "write_data"
    /\ IF s_entry = "library"
       THEN /\ fs' = fs \cup {TimestampPath, DataJsonPath}
            /\ json_data' = <<SnapshotJSON(saved_songs, owned_playlists,
                                           followed_playlists)>>
       ELSE /\ fs' = fs \cup {DataJsonPath}
            /\ json_data' = json_data
    /\ s_pc' = after_serialize(compress)
    /\ UNCHANGED <<s_entry, output, with_images, saved_listing,
                   playlist_listing, saved_songs, owned_playlists,
                   followed_playlists, warnings>>
    /\ UNCHANGED <<compress, archive>>
    /\ UNCHANGED <<runVars, diffVars, compVars>>

\* shutil.make_archive(path.name, format, path): the archive is created, or
\* written over if a file of that name exists.
archive_after(a) == "written"

\* remove_directory(path): the directory and all it holds are removed.
remove_directory(files) == files \cap {ParentDir}

\* compress_directory(output, compress).
Compress ==
    /\ s_pc = "compress"
    /\ archive' = archive_after(archive)
    /\ fs' = remove_directory(fs)
    /\ s_pc' = "done"
    /\ UNCHANGED <<s_entry, output, with_images, saved_listing,
                   playlist_listing, saved_songs, owned_playlists,
                   followed_playlists, warnings, json_data, compress>>
    /\ UNCHANGED <<runVars, diffVars, compVars>>

\* The positions of the backup whose next step calls the remote service.
SerRemotePcs ==
    {"serialize_command", "serialize_saved_songs", "serialize_playlists",
     "serialize_playlist"}

\* A remote call raises: the run ends.
SerRemoteError ==
    /\ s_pc \in SerRemotePcs
    /\ s_pc' = "crashed"
    /\ UNCHANGED <<s_entry, output, with_images, fs, saved_listing,
                   playlist_listing, saved_songs, owned_playlists,
                   followed_playlists, warnings, json_data>>
    /\ UNCHANGED <<compress, archive>>
    /\ UNCHANGED <<runVars, diffVars, compVars>>

NextSerialize ==
    \/ SerializeCommand
    \/ SerializerMkdir
    \/ PlaylistMkdir
    \/ SerializeSavedSongs
    \/ SerializePlaylists
    \/ SerializePlaylist
    \/ WriteData
    \/ Compress
    \/ SerRemoteError

SpecSerialize == InitSerialize /\ [][NextSerialize]_vars

\* The positions at which a backup run has ended: normally, by the abort on
\* an existing output path, by an exception of mkdir, by a remote error.
SerEnded == {"done", "aborted", "mkdir_failed", "crashed"}

\* C18: a backup of the whole library whose output path did not exist and
\* that met no remote error ends successfully, with TIMESTAMP and data.json
\* in the output directory and a document with the four fields.
C18_LibraryBackupWritten ==
    (/\ s_entry = "library"
     /\ compress = "none"
     /\ s_pc \in SerEnded \ {"aborted", "crashed"}) =>
        /\ s_pc = "done"
        /\ {OutputDir, TimestampPath, DataJsonPath} \subseteq fs
        /\ json_data # <<>>
        /\ DOMAIN json_data[1] = SnapshotJSON_keys

\* The positions of a backup that has got past _serialize_saved_songs.
PastSerializeSavedSongs ==
    {"serialize_playlists", "write_data", "compress", "done"}

\* The number of items without a track before position i of a listing.
NullsBefore(listing, i) ==
    Cardinality({j \in 1..(i - 1) : listing[j].track = NullTrack})

\* The collected list holds exactly the items of the listing that have a
\* track, in listing order.
HoldsTheOthers(collected, listing) ==
    /\ Len(collected) =
           Len(listing) - NullsBefore(listing, Len(listing) + 1)
    /\ \A i \in DOMAIN listing :
           listing[i].track # NullTrack =>
               collected[i - NullsBefore(listing, i)].id = listing[i].track

\* The listings with a skipped item that have been collected so far, in the
\* order of their collection.
CollectedListings ==
    LET saved == IF s_pc \in PastSerializeSavedSongs
                        /\ s_entry # "playlist"
                 THEN <<saved_listing>> ELSE <<>>
        lists == IF s_entry = "playlist"
                 THEN IF json_data # <<>>
                      THEN <<playlist_listing[1].tracks>> ELSE <<>>
                 ELSE IF s_pc \in {"write_data", "compress", "done"}
                      THEN [i \in DOMAIN playlist_listing |->
                               playlist_listing[i].tracks]
                      ELSE <<>>
    IN  SelectSeq(saved \o lists,
                  LAMBDA l : NullsBefore(l, Len(l) + 1) > 0)

\* C19: a listing of N items of which K have no track is collected as the
\* other N-K items in listing order, with one warning that reports K (none
\* if K = 0); this holds for the liked songs and for the track list of
\* every playlist, and the collection of a listing always completes.
C19_NullTracksSkipped ==
    /\ (s_entry # "playlist"
            /\ s_pc \in PastSerializeSavedSongs) =>
           HoldsTheOthers(saved_songs, saved_listing)
    /\ (s_entry # "playlist" /\ s_pc \in {"write_data", "compress", "done"}) =>
           \A p \in Range(playlist_listing) :
               \E q \in Range(owned_playlists)
                        \cup Range(followed_playlists) :
                   q.id = p.id /\ HoldsTheOthers(q.tracks, p.tracks)
    /\ (s_entry = "playlist" /\ json_data # <<>>) =>
           HoldsTheOthers(json_data[1].tracks, playlist_listing[1].tracks)
    /\ s_pc \notin {"crashed", "mkdir_failed"} =>
           warnings =
               [i \in DOMAIN CollectedListings |->
                   NullsBefore(CollectedListings[i],
                               Len(CollectedListings[i]) + 1)]

\* C19 witness: the collecting methods have run to their end on a listing
\* with a playlist whose track list has an item without a track followed by
\* an item with one; the playlist is collected with the one track and the
\* warning reports one skipped item.
C19_Witness ==
    /\ s_entry = "methods"
    /\ s_pc = "done"
    /\ \E p \in Range(playlist_listing) :
           /\ Len(p.tracks) = 2
           /\ p.tracks[1].track = NullTrack
           /\ p.tracks[2].track # NullTrack
           /\ \E q \in Range(followed_playlists) :
                  q.id = p.id /\ q.tracks = <<[id |-> p.tracks[2].track]>>
    /\ warnings = <<1>>

\* The IDs of a list of playlists, in the list's order.
IdsOf(list) == [i \in DOMAIN list |-> list[i].id]

\* C20: once _serialize_playlists has returned, every playlist of the
\* listing is in exactly one of the two lists: in the owned list if and
\* only if its owner's ID is the current user's ID, otherwise in the
\* followed list with its owner's data; and each list is in listing order.
C20_PartitionByOwner ==
    (s_entry # "playlist" /\ s_pc \in {"write_data", "compress", "done"}) =>
        /\ Len(owned_playlists) + Len(followed_playlists) =
               Len(playlist_listing)
        /\ \A p \in Range(playlist_listing) :
               /\ p.owner = user_id <=>
                      p.id \in Range(IdsOf(owned_playlists))
               /\ p.owner # user_id <=>
                      p.id \in Range(IdsOf(followed_playlists))
               /\ \A q \in Range(followed_playlists) :
                      q.id = p.id => q.owner.id = p.owner
        /\ NoDuplicates(IdsOf(owned_playlists) \o IdsOf(followed_playlists))
        /\ IsSubSeq(IdsOf(owned_playlists), IdsOf(playlist_listing))
        /\ IsSubSeq(IdsOf(followed_playlists), IdsOf(playlist_listing))

\* C20 witness: _serialize_playlists has returned on a listing of two
\* playlists of the user, the one whose ID is not the user's ID listed
\* first, and on return both are in the owned list in that order.
C20_Witness ==
    /\ s_entry = "methods"
    /\ s_pc = "done"
    /\ Len(playlist_listing) = 2
    /\ \A i \in 1..2 : playlist_listing[i].owner = user_id
    /\ playlist_listing[1].id # user_id
    /\ IdsOf(owned_playlists) = IdsOf(playlist_listing)
    /\ followed_playlists = <<>>


\* C21: a step that is about to write a snapshot to a path that exists
\* stops the run there and leaves everything as it is.  This covers the
\* output path of the backup command (the directory given with -o and,
\* with -c, the archive made of it) and the backup file of a hard restore.
C21_ExistingOutputIsFatal ==
    [][/\ (s_pc = "serialize_command" /\ output = "given"
               /\ OutputDir \in fs) =>
              (s_pc' \in {"aborted", "crashed"} /\ fs' = fs
                   /\ json_data' = json_data)
       /\ (s_pc = "compress" /\ archive = "existing") =>
              (s_pc' = "aborted" /\ archive' = "existing")
       /\ (pc = "create_backup" /\ backup_file = "existing") =>
              (pc' \in Ended \ {"done"} /\ backup_file' = "existing"
                   /\ calls' = calls /\ liked' = liked
                   /\ playlists' = playlists)]_vars

\* ------------------------------------------------ scripts/compression.py
\* A run of the script is one step: main() with the arguments given.

\* Number of runs of the script in a row.
MaxInvocations == 2

\* The paths given to the script.
Paths == {"example.json", "example", "result.json"}

\* The documents a JSON file can hold (objects that are not empty).
JsonValues == {"doc1", "doc2"}

\* The ways the text of a JSON file is laid out: as json.dump writes it with
\* its defaults, as json.dump(indent=2) writes it (data.json of a backup),
\* and without any white space.
Layouts == {"default", "indent", "compact"}

Absent == [kind |-> "absent"]

JsonText(value, layout) ==
    [kind |-> "json", value |-> value, layout |-> layout]

\* json.load / json.loads: the document of a text, whatever its layout.
json_load(text) == text.value

\* json.dumps(json_dict) and json.dump(json_dict, fp): the text of a
\* document in the default layout.
json_dumps(value) == JsonText(value, "default")

\* zlib.compress(data).
zlib_compress(data) == [kind |-> "zlib", payload |-> data]

\* zlib.decompress(data), for zlib data.
zlib_decompress(data) == data.payload

\* The first arguments of the inputs, as sequences of characters.
Commands ==
    {<<>>, <<"c">>, <<"c", "a">>, <<"C">>, <<"d">>, <<"d", "i">>, <<"D">>,
     <<"e">>}

\* str.lower() on one character of the inputs.
lower(char) ==
    CASE char = "C" -> "c"
      [] char = "D" -> "d"
      [] OTHER -> char

\* exit_with_message: the message and the usage line on stderr, exit code 1,
\* no file touched.
exit_with_message(files) ==
    [files |-> files, exit |-> 1, stderr |-> <<"message", "USAGE:">>]

\* An exception that nothing catches: the traceback on stderr, exit code 1.
uncaught_exception(files) ==
    [files |-> files, exit |-> 1, stderr |-> <<"Traceback">>]

\* execute_command(compress, from_path, to_path): FileNotFoundError is
\* caught and reported; a source that is not JSON text makes json.load
\* raise; otherwise the binary file is written.
script_compress(files, src_path, bin_path) ==
    IF files[src_path].kind = "absent" THEN exit_with_message(files)
    ELSE IF files[src_path].kind # "json" THEN uncaught_exception(files)
    ELSE [files |->
              [files EXCEPT ![bin_path] =
                  zlib_compress(json_dumps(json_load(files[src_path])))],
          exit |-> 0, stderr |-> <<>>]

\* execute_command(decompress, from_path, to_path): FileNotFoundError is
\* caught and reported; a file that is not zlib data makes zlib.decompress
\* raise; otherwise the JSON file is written.
script_decompress(files, bin_path, src_path) ==
    IF files[bin_path].kind = "absent" THEN exit_with_message(files)
    ELSE IF files[bin_path].kind # "zlib" THEN uncaught_exception(files)
    ELSE [files |->
              [files EXCEPT ![src_path] =
                  json_dumps(json_load(zlib_decompress(files[bin_path])))],
          exit |-> 0, stderr |-> <<>>]

\* main(): args is sys.argv without the script's name.
main(files, args) ==
    IF Len(args) < 3 THEN exit_with_message(files)
    ELSE IF args[1] = <<>> THEN uncaught_exception(files)
    ELSE LET option == lower(args[1][1])
         IN  IF option = "c" THEN script_compress(files, args[2], args[3])
             ELSE IF option = "d"
                  THEN script_decompress(files, args[2], args[3])
                  ELSE exit_with_message(files)

InitCompression ==
    /\ \E value \in JsonValues, layout \in Layouts :
           c_files = [path \in Paths |->
                         IF path = "example.json"
                         THEN JsonText(value, layout) ELSE Absent]
    /\ c_before = <<>>
    /\ c_last = <<>>
    /\ c_exit = <<>>
    /\ c_stderr = <<>>
    /\ c_runs = 0
    /\ RunIdle
    /\ DiffIdle
    /\ SerIdle

\* The script is run with a first argument, a source path and, unless it is
\* left out, a destination path.
Main ==
    /\ c_runs < MaxInvocations
    /\ \E command \in Commands, from_path \in Paths :
       \E args \in {<<command, from_path>>}
                     \cup {<<command, from_path, to_path>> :
                              to_path \in Paths} :
           LET r == main(c_files, args)
           IN  /\ c_files' = r.files
               /\ c_exit' = <<r.exit>>
               /\ c_stderr' = r.stderr
               /\ c_last' = <<args>>
    /\ c_before' = c_files
    /\ c_runs' = c_runs + 1
    /\ UNCHANGED <<runVars, diffVars, serVars>>

NextCompression == Main

SpecCompression == InitCompression /\ [][NextCompression]_vars

\* C22: whenever a file B holds what compressing a JSON file A gives, and a
\* file C what decompressing B gives, C is identical to A.
C22_RoundTripIdentical ==
    \A a, b, c \in DOMAIN c_files :
        (/\ c_files[a].kind = "json"
         /\ c_files[b] = script_compress(c_files, a, b).files[b]
         /\ c_files[c] = script_decompress(c_files, b, c).files[c]) =>
            c_files[c] = c_files[a]

\* The first argument the documentation gives for each action.
CompressWord == <<"c", "o", "m", "p", "r", "e", "s", "s">>

DecompressWord == <<"d", "e">> \o CompressWord

\* The first character of a word, for a word that has one.
Begins(word, chars) == word # <<>> /\ word[1] \in chars

\* What the last run has left: the files, the exit code, stderr.
LastOutcome ==
    [files |-> c_files, exit |-> c_exit[1], stderr |-> c_stderr]

\* C23: for a run with three arguments, a first argument that begins with c
\* acts as compress does and one that begins with d as decompress does, with
\* exit code 0 when the source path holds what the action reads; any other
\* first argument gives a message with USAGE: on stderr, an exit code that
\* is not 0, and no file written.
C23_FirstArgumentAlone ==
    (c_last # <<>> /\ Len(c_last[1]) = 3) =>
        LET command == c_last[1][1]
            from_path == c_last[1][2]
            to_path == c_last[1][3]
        IN  /\ Begins(command, {"c", "C"}) =>
                   /\ LastOutcome =
                          main(c_before, <<CompressWord, from_path, to_path>>)
                   /\ c_before[from_path].kind = "json" => c_exit[1] = 0
            /\ Begins(command, {"d", "D"}) =>
                   /\ LastOutcome =
                          main(c_before,
                               <<DecompressWord, from_path, to_path>>)
                   /\ c_before[from_path].kind = "zlib" => c_exit[1] = 0
            /\ ~Begins(command, {"c", "C", "d", "D"}) =>
                   /\ c_exit[1] # 0
                   /\ "USAGE:" \in Range(c_stderr)
                   /\ c_files = c_before

\* ------------------------------------------- claims about a restore run

\* C24: whatever the live library is when the Deserializer fetches it, the
\* fetch takes as owned exactly the playlists that the Serializer takes as
\* owned (those whose owner is the current user), and as followed exactly
\* the others.
C24_SameOwnedSet ==
    pc = "get_library_playlists" =>
        /\ library_owned_ids(playlists, user_id) =
               {id \in DOMAIN playlists : is_owned(playlists[id], user_id)}
        /\ library_followed_ids(playlists, user_id) =
               {id \in DOMAIN playlists :
                   ~is_owned(playlists[id], user_id)}

\* C25: in a run of the restore command with the hard option where both
\* prompts were accepted, once the backup step is over the backup file has
\* been written and the run has not ended at the backup step.
C25_HardBackupCompletes ==
    (entry = "command" /\ hard /\ Accepted /\ pc # "create_backup") =>
        (backup_written /\ pc # "backup_failed")

\* A call of this run that passed the track for the target.
TrackCalled(op, target, track) ==
    \E i \in DOMAIN calls :
        /\ calls[i].op = op
        /\ calls[i].id = target
        /\ track \in Range(calls[i].tracks)

\* A call of this run, whatever it is, that passed the track for the
\* playlist.
PlaylistTrackCalled(target, track) ==
    \E i \in DOMAIN calls :
        /\ calls[i].id = target
        /\ track \in Range(calls[i].tracks)

\* C26: once the playlists are reconciled, every entry of the result stands
\* for calls of the run: a CREATED entry for a playlist created by a call or
\* now in the live library, a DELETED entry for a playlist unfollowed by a
\* call, every addition (and, if hard, every deletion) of the liked songs
\* for a track passed to saved_tracks_add (saved_tracks_delete), and every
\* addition (if hard, every deletion) of a CREATED or MODIFIED entry for a
\* track passed to a call for that playlist.
C26_ReportDescribesAppliedChanges ==
    PlaylistsDone =>
        /\ \A k \in DOMAIN saved_delta :
               /\ \A t \in Range(saved_delta[k].additions) :
                      TrackCalled("saved_tracks_add", NoId, t)
               /\ hard =>
                      \A t \in Range(saved_delta[k].deletions) :
                          TrackCalled("saved_tracks_delete", NoId, t)
        /\ \A k \in DOMAIN deltas :
               /\ deltas[k].mode = "CREATED" =>
                      \/ \E i \in CreateCalls :
                             calls[i].id = deltas[k].changed.id
                      \/ deltas[k].changed.id \in DOMAIN playlists
               /\ deltas[k].mode = "DELETED" =>
                      \E i \in DOMAIN calls :
                          /\ calls[i].op = "playlist_unfollow"
                          /\ calls[i].id = deltas[k].original.id
               /\ deltas[k].mode \in {"CREATED", "MODIFIED"} =>
                      /\ \A t \in Range(deltas[k].additions) :
                             PlaylistTrackCalled(deltas[k].changed.id, t)
                      /\ hard =>
                             \A t \in Range(deltas[k].deletions) :
                                 PlaylistTrackCalled(deltas[k].changed.id, t)

====
